---- MODULE Spec2Model ----
(***************************************************************************)
(* Model of the field extraction engine: ConfidenceScorer.calculate        *)
(* (scorer.py), FieldExtractor._fuzzy_search and FieldExtractor.extract    *)
(* (extractor.py).                                                         *)
(*                                                                         *)
(* Strings are sequences of one-character strings.  Confidences are kept   *)
(* in hundredths (0.95 is 95), which is exact for every value the scorer   *)
(* returns.  The two library calls whose result depends on data outside    *)
(* the repository are environment choices: re.search on a configured       *)
(* pattern (its outcome is chosen among the outcomes a pattern with that   *)
(* many groups can have on the text) and fuzz.partial_ratio (a table of    *)
(* similarities, one per (line, keyword) pair the code evaluates).         *)
(***************************************************************************)
EXTENDS Integers, Sequences, FiniteSets, TLC

VARIABLES
    patterns,   \* FieldExtractor.patterns: the registry, in insertion order
    text,       \* the argument of the running extract call
    lines,      \* extract's local lines
    idx,        \* position of extract's loop over patterns.items()
    results,    \* extract's local results
    pc,         \* "idle" | "loop" | "returned" | "raised" (extract), or the spec's tag
    cur,        \* what the last loop iteration of extract did
    fz,         \* SpecFuzzy: the call of _fuzzy_search (arguments, similarities, result)
    calc        \* SpecScorer: the last call of ConfidenceScorer.calculate

vars == <<patterns, text, lines, idx, results, pc, cur, fz, calc>>

----------------------------------------------------------------------------
(* Bounds of the model *)

\* longest text handed to _fuzzy_search's caller in SpecFuzzy
MaxTextLen == 3
\* longest keyword list of a field
MaxKeywords == 2
\* most fields in a registry
MaxFields == 2

(* Characters.  Two digits tell tokens apart; "," and "." are the other    *)
(* characters of a numeric token and the visible characters that are no    *)
(* digit; " " and the line break are the whitespace.  The texts enumerated *)
(* exhaustively are over Chars; Amounts adds texts with decimal points.    *)
Digits == {"1", "2"}
Whitespace == {" ", "\n"}
LineChars == Digits \cup {",", " "}
Chars == LineChars \cup {"\n"}

\* texts with decimal amounts, thousands separators and a trailing period
Amounts ==
    {<<"1", ".", "2">>,
     <<"1", ".", "2", ".", "1">>,
     <<"2", " ", "1", ".">>,
     <<"1", ",", "2", ".", "1", " ", "2">>,
     <<"2", ".", "1", " ", ".", ",">>,
     <<"1", ".", "2", "\n", "2", ".", "1">>}

RECURSIVE StringsOfLen(_)
StringsOfLen(n) ==
    IF n = 0 THEN {<<>>}
    ELSE {Append(s, c) : s \in StringsOfLen(n - 1), c \in Chars}

StringsUpTo(n) == UNION {StringsOfLen(k) : k \in 0..n}

\* similarities fuzz.partial_ratio may return for a pair: below the
\* threshold, at it, and two values above it that round to one confidence
ScoreSet == {84, 85, 96, 97}

\* how many capturing groups a configured pattern has
GroupCounts == {0, 1}

\* the documents handed to extract in Spec: empty, blank, without a digit,
\* a number, a number after whitespace, a number line and a blank line
Documents ==
    {<<>>, <<" ">>, <<",">>, <<"1">>, <<" ", "1">>, <<"2", "\n", " ">>}

FieldNames == <<"policy_number", "premium", "sum_assured", "policy_holder">>

----------------------------------------------------------------------------
(* str helpers *)

\* text.split("\n")
RECURSIVE SplitFrom(_, _, _)
SplitFrom(s, i, acc) ==
    IF i > Len(s) THEN <<acc>>
    ELSE IF s[i] = "\n" THEN <<acc>> \o SplitFrom(s, i + 1, <<>>)
    ELSE SplitFrom(s, i + 1, Append(acc, s[i]))

Split(s) == SplitFrom(s, 1, <<>>)

RECURSIVE LStrip(_)
LStrip(s) ==
    IF s # <<>> /\ s[1] \in Whitespace THEN LStrip(Tail(s)) ELSE s

RECURSIVE RStrip(_)
RStrip(s) ==
    IF s # <<>> /\ s[Len(s)] \in Whitespace
    THEN RStrip(SubSeq(s, 1, Len(s) - 1)) ELSE s

\* str.strip()
Strip(s) == RStrip(LStrip(s))

\* any(c.isdigit() for c in n)
HasDigit(s) == \E i \in 1..Len(s) : s[i] \in Digits

----------------------------------------------------------------------------
(* scorer.py *)

RegexConfidence == 95
FuzzyCap == 85

\* round(x, 2) of the double match_quality / 100.0 * 0.85, in hundredths.
\* 85 * q / 100 is a midpoint only for q in {10, 30, 50, 70, 90}; the double
\* product lies just below the midpoint for 50 and 70 and at or above it for
\* the others, so Python rounds 50 and 70 down and 10, 30, 90 up.
RoundsDown == {50, 70}

Round2(q) ==
    IF q \in RoundsDown THEN (FuzzyCap * q) \div 100
    ELSE (FuzzyCap * q + 50) \div 100

calculateUnscaled(method, match_quality) ==
    IF method = "regex" THEN RegexConfidence
    ELSE IF method = "fuzzy" THEN match_quality
    ELSE 0

\* ConfidenceScorer.calculate(method, match_quality)
calculate(method, match_quality) ==
    IF method = "regex" THEN RegexConfidence
    ELSE IF method = "fuzzy" THEN Round2(match_quality)
    ELSE 0

----------------------------------------------------------------------------
(* extractor.py: _fuzzy_search *)

Threshold == 85

\* re.findall(r"(?:Rs\.|<rupee>)?\s?([\d,]+\.?\d*)", line): the group of every
\* match, scanning left to right.  No character of the model's alphabet
\* starts the optional currency prefix, so it matches empty.
RECURSIVE RunEnd(_, _, _)
\* the last index of the longest run of characters of S starting at i (i - 1 if none)
RunEnd(s, i, S) ==
    IF i <= Len(s) /\ s[i] \in S THEN RunEnd(s, i + 1, S) ELSE i - 1

\* where the group [\d,]+\.?\d* starting at g ends (greedy; every later part is optional)
GroupEnd(s, g) ==
    LET e1 == RunEnd(s, g, Digits \cup {","})
        e2 == IF e1 + 1 <= Len(s) /\ s[e1 + 1] = "." THEN e1 + 1 ELSE e1
    IN  RunEnd(s, e2 + 1, Digits)

\* where the group of a match starting at p starts, 0 when nothing matches at p
GroupStart(s, p) ==
    IF s[p] \in Whitespace /\ p + 1 <= Len(s) /\ s[p + 1] \in Digits \cup {","}
    THEN p + 1
    ELSE IF s[p] \in Digits \cup {","} THEN p
    ELSE 0

RECURSIVE FindAllFrom(_, _)
FindAllFrom(s, p) ==
    IF p > Len(s) THEN <<>>
    ELSE LET g == GroupStart(s, p) IN
         IF g = 0 THEN FindAllFrom(s, p + 1)
         ELSE <<SubSeq(s, g, GroupEnd(s, g))>> \o FindAllFrom(s, GroupEnd(s, g) + 1)

numbers(line) == FindAllFrom(line, 1)

IsValidValue(n) == Strip(n) # <<>> /\ HasDigit(n)

\* [n for n in numbers if n.strip() and any(c.isdigit() for c in n)]
valid_values(line) == SelectSeq(numbers(line), IsValidValue)

PickFirst(vs) == vs[1]

\* valid_values[-1]
PickLast(vs) == vs[Len(vs)]

AcceptedLoose(score) == score >= 80

\* if score >= 85
Accepted(score) == score >= Threshold

BetterOrEqual(confidence, best_score) == confidence >= best_score

ReplaceAlways(confidence, best_score) == TRUE

\* if confidence > best_score
Better(confidence, best_score) == confidence > best_score

\* if not line.strip(): continue
IsBlank(line) == Strip(line) = <<>>

NonBlank(ls) == {i \in 1..Len(ls) : ~IsBlank(ls[i])}

\* the arguments of the fuzz.partial_ratio calls _fuzzy_search makes: a
\* non-blank line's text and a keyword of the list
Pairs(ls, keywords) == {ls[i] : i \in NonBlank(ls)} \X (1..Len(keywords))

\* the answers fuzz.partial_ratio can give: a function of the line's text and
\* of the keyword, so equal lines get equal similarities
SimTables(ls, keywords) == [Pairs(ls, keywords) -> ScoreSet]

NoBest == [best_candidate |-> <<>>, best_score |-> 0, best_method_score |-> 0]

\* the body of the inner loop for one (line, keyword) pair
FuzzyPair(best, line, score) ==
    IF ~Accepted(score) THEN best
    ELSE LET values == valid_values(line) IN
         IF values = <<>> THEN best
         ELSE LET confidence == calculate("fuzzy", score) IN
              IF Better(confidence, best.best_score)
              THEN [best_candidate |-> PickLast(values),
                    best_score |-> confidence,
                    best_method_score |-> score]
              ELSE best

RECURSIVE FuzzyKeywords(_, _, _, _, _, _)
FuzzyKeywords(best, ls, keywords, sim, i, k) ==
    IF k > Len(keywords) THEN best
    ELSE FuzzyKeywords(FuzzyPair(best, ls[i], sim[<<ls[i], k>>]), ls, keywords, sim, i, k + 1)

RECURSIVE FuzzyLines(_, _, _, _, _)
FuzzyLines(best, ls, keywords, sim, i) ==
    IF i > Len(ls) THEN best
    ELSE IF IsBlank(ls[i]) THEN FuzzyLines(best, ls, keywords, sim, i + 1)
    ELSE FuzzyLines(FuzzyKeywords(best, ls, keywords, sim, i, 1), ls, keywords, sim, i + 1)

NoResult == [found |-> FALSE, value |-> <<>>, confidence |-> 0, method |-> "none", score |-> 0]

\* _fuzzy_search(lines, keywords): the dict it returns, or NoResult for None.
\* method "fuzzy (score: N)" is the pair method |-> "fuzzy", score |-> N.
FuzzySearch(ls, keywords, sim) ==
    LET best == FuzzyLines(NoBest, ls, keywords, sim, 1) IN
    IF best.best_candidate # <<>>
    THEN [found |-> TRUE, value |-> best.best_candidate, confidence |-> best.best_score,
          method |-> "fuzzy", score |-> best.best_method_score]
    ELSE NoResult

\* what self._fuzzy_search(lines, keywords) can return, over the similarities
\* the library can answer with
FuzzyOutcomes(ls, keywords) ==
    {FuzzySearch(ls, keywords, sim) : sim \in SimTables(ls, keywords)}

----------------------------------------------------------------------------
(* Specification of the scorer alone *)

Methods == {"regex", "fuzzy", "none", "ocr"}

NoCall == [called |-> FALSE, method |-> "none", q |-> 0, out |-> 0]
NoFuzzy == [called |-> FALSE, lines |-> <<>>, keywords |-> <<>>, sim |-> <<>>, res |-> NoResult]
NoField == [valid |-> FALSE]

InitScorer ==
    /\ patterns = <<>> /\ text = <<>> /\ lines = <<>> /\ idx = 0
    /\ results = <<>> /\ pc = "scorer" /\ cur = NoField
    /\ fz = NoFuzzy /\ calc = NoCall

Calculate ==
    /\ pc = "scorer"
    /\ \E method \in Methods, q \in 0..100 :
         calc' = [called |-> TRUE, method |-> method, q |-> q, out |-> calculate(method, q)]
    /\ UNCHANGED <<patterns, text, lines, idx, results, pc, cur, fz>>

NextScorer == Calculate

SpecScorer == InitScorer /\ [][NextScorer]_vars

----------------------------------------------------------------------------
(* Specification of _fuzzy_search alone *)

KeywordLists == {[k \in 1..n |-> k] : n \in 0..MaxKeywords}

InitFuzzy ==
    /\ patterns = <<>> /\ idx = 0 /\ results = <<>> /\ pc = "fuzzy" /\ cur = NoField
    /\ calc = NoCall /\ fz = NoFuzzy
    /\ text \in StringsUpTo(MaxTextLen) \cup Amounts
    /\ lines = Split(text)

FuzzyCall ==
    /\ pc = "fuzzy" /\ ~fz.called
    /\ \E keywords \in KeywordLists :
       \E sim \in SimTables(lines, keywords) :
         fz' = [called |-> TRUE, lines |-> lines, keywords |-> keywords, sim |-> sim,
                res |-> FuzzySearch(lines, keywords, sim)]
    /\ UNCHANGED <<patterns, text, lines, idx, results, pc, cur, calc>>

NextFuzzy == FuzzyCall

SpecFuzzy == InitFuzzy /\ [][NextFuzzy]_vars

----------------------------------------------------------------------------
(* extractor.py: extract *)

\* the initial extracted_data of a loop iteration
Default == [absent |-> TRUE, value |-> <<>>, confidence |-> 0, method |-> "none", score |-> 0]

\* a dict returned by _fuzzy_search, as a result entry
FuzzyEntry(res) ==
    [absent |-> FALSE, value |-> res.value, confidence |-> res.confidence,
     method |-> res.method, score |-> res.score]

NoMatch == [matched |-> FALSE, lastNone |-> FALSE, last |-> <<>>]

\* what re.search(config["regex"], text, IGNORECASE | MULTILINE) can return for
\* a pattern with `groups` capturing groups: None, or a match whose last group
\* either did not take part in the match (groups()[-1] is None) or captured
\* a substring of the text
SearchOutcomes(groups, t) ==
    {NoMatch}
    \cup (IF groups = 0
          THEN {[matched |-> TRUE, lastNone |-> FALSE, last |-> <<>>]}
          ELSE {[matched |-> TRUE, lastNone |-> TRUE, last |-> <<>>]}
               \cup {[matched |-> TRUE, lastNone |-> FALSE, last |-> SubSeq(t, i, j)] :
                        i \in 1..(Len(t) + 1), j \in 0..Len(t)})

\* Strategy 1: extracted_data after the regex attempt, or the exception
\* match.groups()[-1].strip() raises
RegexAttempt(config, m) ==
    IF ~m.matched THEN [raised |-> FALSE, error |-> "", data |-> Default]
    ELSE IF config.groups = 0
    THEN [raised |-> TRUE, error |-> "IndexError", data |-> Default]
    ELSE IF m.lastNone
    THEN [raised |-> TRUE, error |-> "AttributeError", data |-> Default]
    ELSE [raised |-> FALSE, error |-> "",
          data |-> [absent |-> FALSE, value |-> Strip(m.last),
                    confidence |-> calculate("regex", 100),
                    method |-> "regex", score |-> 0]]

FallbackOnlyOnNone(extracted_data) == extracted_data.absent

\* if not extracted_data["value"]
NeedsFallback(extracted_data) == extracted_data.absent \/ extracted_data.value = <<>>

\* if fuzzy_res: extracted_data = fuzzy_res
AfterFallback(extracted_data, fuzzy_res) ==
    IF fuzzy_res.found THEN FuzzyEntry(fuzzy_res) ELSE extracted_data

Configs == [groups : GroupCounts, keywords : KeywordLists]

\* the registries handed to FieldExtractor(patterns): a dict, so names are distinct
Registries ==
    UNION {{[i \in 1..n |-> [name |-> FieldNames[i], groups |-> c[i].groups,
                             keywords |-> c[i].keywords]] : c \in [1..n -> Configs]} :
           n \in 0..MaxFields}

Names(reg) == {reg[i].name : i \in 1..Len(reg)}

Init ==
    /\ patterns \in Registries
    /\ text = <<>> /\ lines = <<>> /\ idx = 0 /\ results = <<>>
    /\ pc = "idle" /\ cur = NoField /\ fz = NoFuzzy /\ calc = NoCall

\* extract(text), up to the loop
Extract ==
    /\ pc = "idle"
    /\ \E t \in Documents :
         /\ text' = t
         /\ lines' = Split(t)
    /\ results' = <<>>
    /\ idx' = 1
    /\ pc' = "loop"
    /\ UNCHANGED <<patterns, cur, fz, calc>>

Trace(config, m, r, consulted, fuzzy_res) ==
    [valid |-> TRUE, name |-> config.name, groups |-> config.groups,
     keywords |-> config.keywords, matched |-> m.matched, lastNone |-> m.lastNone,
     last |-> m.last, raised |-> r.raised, error |-> r.error,
     consulted |-> consulted, fuzzy |-> fuzzy_res]

\* one iteration of the loop over self.patterns.items()
ExtractField ==
    /\ pc = "loop" /\ idx <= Len(patterns)
    /\ LET config == patterns[idx] IN
       \E m \in SearchOutcomes(config.groups, text) :
         LET r == RegexAttempt(config, m) IN
         IF r.raised
         THEN /\ pc' = "raised"
              /\ cur' = Trace(config, m, r, FALSE, NoResult)
              /\ UNCHANGED <<results, idx>>
         ELSE IF NeedsFallback(r.data)
         THEN \E fuzzy_res \in FuzzyOutcomes(lines, config.keywords) :
                /\ results' = results @@ (config.name :> AfterFallback(r.data, fuzzy_res))
                /\ cur' = Trace(config, m, r, TRUE, fuzzy_res)
                /\ idx' = idx + 1
                /\ pc' = pc
         ELSE /\ results' = results @@ (config.name :> r.data)
              /\ cur' = Trace(config, m, r, FALSE, NoResult)
              /\ idx' = idx + 1
              /\ pc' = pc
    /\ UNCHANGED <<patterns, text, lines, fz, calc>>

\* return results
Return ==
    /\ pc = "loop" /\ idx > Len(patterns)
    /\ pc' = "returned"
    /\ UNCHANGED <<patterns, text, lines, idx, results, cur, fz, calc>>

Next == Extract \/ ExtractField \/ Return

Spec == Init /\ [][Next]_vars

----------------------------------------------------------------------------
(* Properties of ConfidenceScorer.calculate, under SpecScorer *)

\* C4: calculate("regex", q) is 0.95 for every q; calculate("fuzzy", 100) is
\* 0.85 and calculate("fuzzy", 0) is 0.0; calculate("fuzzy", q) is q/100 * 0.85
\* rounded to the nearest hundredth and never below the score of a smaller
\* quality; every other method scores 0.0; every score lies in [0, 1] and a
\* fuzzy score is at most 0.85, below the regex constant.
C4_ScorerContract ==
    calc.called =>
        /\ calc.out \in 0..100
        /\ (calc.method = "regex") => (calc.out = 95)
        /\ (calc.method = "fuzzy") =>
              /\ (calc.q = 100) => (calc.out = 85)
              /\ (calc.q = 0) => (calc.out = 0)
              /\ 100 * calc.out - 85 * calc.q \in -50..50
              /\ \A q2 \in 0..calc.q : calculate("fuzzy", q2) <= calc.out
              /\ calc.out <= 85
              /\ calc.out < 95
        /\ (calc.method \notin {"regex", "fuzzy"}) => (calc.out = 0)

\* a fuzzy call on a quality whose exact score, 82.45 hundredths, is rounded
C4_Witness ==
    calc.called /\ calc.method = "fuzzy" /\ calc.q = 97 /\ calc.out = 82

----------------------------------------------------------------------------
(* Properties of _fuzzy_search, under SpecFuzzy *)

\* the pairs of the recorded call: a line that is not all whitespace, by
\* its index, and a keyword, by its index
CallPairs ==
    {p \in (1..Len(fz.lines)) \X (1..Len(fz.keywords)) :
        \E j \in 1..Len(fz.lines[p[1]]) : fz.lines[p[1]][j] \notin {" ", "\n"}}

\* the similarity the library gave for the pair
SimOf(p) == fz.sim[<<fz.lines[p[1]], p[2]>>]

\* the accepted pairs whose line holds a digit, that is, a numeric token
CandPairs ==
    {p \in CallPairs : SimOf(p) >= 85 /\ HasDigit(fz.lines[p[1]])}

ConfOf(p) == calculate("fuzzy", SimOf(p))

\* p comes before r in the iteration: lines in order, keywords in order within a line
Before(p, r) == p[1] < r[1] \/ (p[1] = r[1] /\ p[2] < r[2])

\* v is a numeric token of the line after which the line holds no digit
EndsTheNumbers(v, line) ==
    /\ HasDigit(v)
    /\ \A j \in 1..Len(v) : v[j] \in Digits \cup {",", "."}
    /\ \E s \in 1..Len(line) :
          /\ s + Len(v) - 1 <= Len(line)
          /\ SubSeq(line, s, s + Len(v) - 1) = v
          /\ \A j \in (s + Len(v))..Len(line) : line[j] \notin Digits

\* the largest similarity among candidate-yielding pairs
MaxSim ==
    LET sims == {SimOf(p) : p \in CandPairs} IN
    CHOOSE q \in sims : \A r \in sims : r <= q

\* C5: a returned result records a similarity of at least 85, which is the
\* similarity of a (keyword, non-blank line) pair of the input whose line
\* supplies the value; no pair below 85 is the one recorded.
C5_ThresholdSafety ==
    (fz.called /\ fz.res.found) =>
        /\ fz.res.score >= 85
        /\ \E p \in CallPairs :
              /\ SimOf(p) = fz.res.score
              /\ EndsTheNumbers(fz.res.value, fz.lines[p[1]])
        /\ \A p \in CallPairs :
              (SimOf(p) < 85) => (SimOf(p) # fz.res.score)

\* a result at the threshold while a pair on a line with a digit scored 84
C5_Witness ==
    /\ fz.called /\ fz.res.found /\ fz.res.score = 85
    /\ \E p \in CallPairs : SimOf(p) = 84 /\ HasDigit(fz.lines[p[1]])

\* C6: the result is that of the first pair, lines in document order and
\* keywords in registry order within a line, whose confidence is the maximum
\* over the accepted pairs that yield a candidate; value, confidence and
\* recorded similarity come from that one pair; with no such pair the result
\* is absent.
C6_GlobalFirstBest ==
    fz.called =>
        LET cands == CandPairs
            confs == {ConfOf(p) : p \in cands}
            best == CHOOSE c \in confs : \A d \in confs : d <= c
            firsts == {p \in cands : ConfOf(p) = best}
        IN  IF cands = {} THEN ~fz.res.found
            ELSE /\ fz.res.found
                 /\ \E p \in firsts :
                       /\ \A r \in firsts : ~Before(r, p)
                       /\ fz.res.confidence = ConfOf(p)
                       /\ fz.res.score = SimOf(p)
                       /\ EndsTheNumbers(fz.res.value, fz.lines[p[1]])
                       /\ fz.res.method = "fuzzy"

\* two candidate pairs of equal confidence and different values: the earlier one is returned
C6_Witness ==
    /\ fz.called /\ fz.res.found
    /\ \E p, r \in CandPairs :
          /\ Before(p, r)
          /\ ConfOf(p) = ConfOf(r)
          /\ SimOf(p) # SimOf(r)
          /\ fz.lines[p[1]] # fz.lines[r[1]]
          /\ fz.res.score = SimOf(p)
          /\ fz.res.value = fz.lines[p[1]]
          /\ fz.res.value # fz.lines[r[1]]

WithoutDigitFree ==
    [a \in DOMAIN fz.sim |-> IF HasDigit(a[1]) THEN fz.sim[a] ELSE 0]

\* C10: the value of a result is the last of the digit-bearing numeric tokens
\* of the line of an accepted pair with the recorded similarity, whichever
\* keyword matched that line; accepted pairs on lines without a digit-bearing
\* token do not change the result; the result is absent exactly when no
\* accepted pair's line has a digit-bearing token.
C10_LastNumericToken ==
    fz.called =>
        LET tokens == [i \in 1..Len(fz.lines) |-> valid_values(fz.lines[i])]
            accepted == {p \in CallPairs : SimOf(p) >= 85}
            yielding == {p \in accepted : tokens[p[1]] # <<>>}
        IN  /\ fz.res.found <=> (yielding # {})
            /\ fz.res.found =>
                  \E p \in yielding :
                     /\ SimOf(p) = fz.res.score
                     /\ fz.res.value = tokens[p[1]][Len(tokens[p[1]])]
                     /\ EndsTheNumbers(fz.res.value, fz.lines[p[1]])
            /\ \A p \in accepted : (p \in yielding) <=> HasDigit(fz.lines[p[1]])
            /\ (accepted # yielding) =>
                  (FuzzySearch(fz.lines, fz.keywords, WithoutDigitFree) = fz.res)

\* the winning line holds two different numbers and the second is returned
C10_Witness ==
    /\ fz.called /\ fz.res.found
    /\ \E p \in CallPairs :
          LET tokens == valid_values(fz.lines[p[1]]) IN
          /\ SimOf(p) = fz.res.score
          /\ Len(tokens) = 2
          /\ tokens[1] # tokens[2]
          /\ fz.res.value = tokens[2]
          /\ Cardinality(CandPairs) = 1

----------------------------------------------------------------------------
(* Properties of extract, under Spec *)

\* the deterministic attempt of the last processed field matched and its
\* last group, trimmed, is empty
EmptyMatch ==
    cur.matched /\ cur.groups >= 1 /\ ~cur.lastNone /\ Strip(cur.last) = <<>>

\* the deterministic attempt of the last processed field yielded a non-empty trimmed value
Yielded ==
    cur.matched /\ cur.groups >= 1 /\ ~cur.lastNone /\ Strip(cur.last) # <<>>

\* C1 as stated: when the deterministic attempt yields no non-empty trimmed
\* value (no match, or a match whose last group is empty or whitespace-only)
\* and the approximate matcher returns absent, the field's result is the
\* default: value absent, confidence 0.0, method "none".
C1_DefaultWhenNothingFound ==
    (cur.valid /\ (~cur.matched \/ EmptyMatch) /\ cur.consulted /\ ~cur.fuzzy.found) =>
        /\ cur.name \in DOMAIN results
        /\ results[cur.name].absent
        /\ results[cur.name].confidence = 0
        /\ results[cur.name].method = "none"

\* C2 as stated: with at least one capturing group in every pattern, extract
\* returns a mapping whose keys are exactly the registry's field names.
C2_ExactlyTheRegistryKeys ==
    (\A i \in 1..Len(patterns) : patterns[i].groups >= 1) =>
        /\ pc # "raised"
        /\ (pc = "returned") => (DOMAIN results = Names(patterns))

\* C3: the approximate matcher is consulted exactly when the deterministic
\* attempt produced no match or a match whose trimmed last group is empty; a
\* non-empty trimmed value gives {that value, 0.95, "regex"} whatever the
\* lines and keywords; otherwise a candidate of the approximate matcher is
\* the field's result.
C3_StrategyOrder ==
    cur.valid =>
        /\ cur.consulted <=> (~cur.matched \/ EmptyMatch)
        /\ Yielded =>
              /\ cur.name \in DOMAIN results
              /\ results[cur.name] =
                    [absent |-> FALSE, value |-> Strip(cur.last), confidence |-> 95,
                     method |-> "regex", score |-> 0]
        /\ (~Yielded /\ cur.consulted /\ cur.fuzzy.found) =>
              /\ cur.name \in DOMAIN results
              /\ results[cur.name] =
                    [absent |-> FALSE, value |-> cur.fuzzy.value,
                     confidence |-> cur.fuzzy.confidence,
                     method |-> "fuzzy", score |-> cur.fuzzy.score]

\* a whitespace-only capture fell back to the approximate matcher, whose candidate is the result
C3_Witness ==
    /\ cur.valid /\ cur.matched /\ cur.last = <<" ">>
    /\ cur.consulted /\ cur.fuzzy.found
    /\ cur.name \in DOMAIN results
    /\ results[cur.name].method = "fuzzy"
    /\ results[cur.name].value = <<"1">>

\* C8 as stated: a field whose pattern has no capturing group makes extract
\* fail whenever it is processed, so no result entry is ever stored for it.
C8_ZeroGroupsAlwaysFail ==
    \A i \in 1..Len(patterns) :
        (patterns[i].groups = 0) =>
            /\ patterns[i].name \notin DOMAIN results
            /\ (idx > i) => (pc = "raised")

\* C9 as stated: when the approximate matcher is attempted with an empty
\* keyword list, the field's processing fails instead of storing a result.
C9_EmptyKeywordsFail ==
    (cur.valid /\ cur.consulted /\ cur.keywords = <<>>) =>
        /\ pc = "raised"
        /\ cur.name \notin DOMAIN results

====
